---- MODULE Spec2Model ----
(***************************************************************************)
(* Model of basebiginteger.py: the BaseBigInteger class (sign + little-    *)
(* endian digit array in an arbitrary base) with its constructor, string   *)
(* rendering, +, -, * (Karatsuba) and shift.                               *)
(*                                                                         *)
(* A numpy array is modelled as a sequence of integers, index 1 being the  *)
(* least significant digit (Python index 0).  A BaseBigInteger object is a *)
(* record [number, negative, err]; err = "none" for a constructed object   *)
(* and otherwise names the Python exception the call raised.               *)
(*                                                                         *)
(* Digit words are modelled as unbounded integers: every base in Bases     *)
(* satisfies (base-1)^2 + base < 2^15, so no int16 word of the default     *)
(* store can wrap in any computation of the model.                         *)
(***************************************************************************)
EXTENDS Integers, Sequences, FiniteSets, TLC

VARIABLES
    base,        \* the base every object of the session uses
    x, y,        \* the two operand objects
    r,           \* the object (or exception) the last call produced
    op,          \* the last call
    args,        \* its operands: <<"x","y">>, <<"x","x">> (one object twice), or <<"x", k>>
    nx, ny, nr,  \* the native integers the driver computes next to x, y and r
    sx, sy,      \* "new": x (y) came from the constructor; "kept": from an earlier call
    text         \* the last rendered string

vars == <<base, x, y, r, op, args, nx, ny, nr, sx, sy, text>>

-----------------------------------------------------------------------------
(* Bounds of the model *)

MaxInt == 6
MaxShift == 2
MaxLoad == 6
MaxDigits == 4
MaxMulLen == 6
MaxMulLenY == 4
MaxSignedLen == 2
MaxNormLen == 3
MaxNormDigit == 4
MaxCodecInt == 12
MaxAddInt == 100

Bases == {2, 3, 10}
CodecBases == {2, 10, 16, 37, 100}
MulBases == {2, 3}
NormBases == {2, 3, 10}

-----------------------------------------------------------------------------
(* numpy helpers *)

\* The elements f[1], ..., f[n] as a sequence.  Every array built by a
\* function constructor goes through it, so arrays are always tuples.
array(f, n) == SubSeq(f, 1, n)

zeros(n) == array([i \in 1..n |-> 0], n)

RECURSIVE trim_zeros(_)
trim_zeros(a) ==
    IF Len(a) > 0 /\ a[Len(a)] = 0 THEN trim_zeros(SubSeq(a, 1, Len(a) - 1)) ELSE a

Reversed(s) == array([i \in 1..Len(s) |-> s[Len(s) + 1 - i]], Len(s))

RECURSIVE Pow(_, _)
Pow(b, k) == IF k = 0 THEN 1 ELSE b * Pow(b, k - 1)

-----------------------------------------------------------------------------
(* propogate_carryovers *)

\* the carry scan "for digit in range(0, len(result)-1)"; digit is 1-based here
RECURSIVE CarryScan(_, _, _)
CarryScan(result, digit, b) ==
    IF digit > Len(result) - 1 THEN result
    ELSE CarryScan([result EXCEPT ![digit + 1] = @ + (result[digit] \div b),
                                  ![digit] = @ % b],
                   digit + 1, b)

\* "if result[-1] < 0": the scanned array after the highest-digit fix
FixHighest(result, b) ==
    LET n == Len(result) IN
    IF result[n] < 0
    THEN IF n > 1
         THEN [result EXCEPT ![n - 1] = result[n] % b, ![n] = 0]
         ELSE [result EXCEPT ![n] = @ % b]
    ELSE result

\* "while result[-1] >= self._base": np.append builds a new array each time
RECURSIVE CarryUp(_, _)
CarryUp(result, b) ==
    LET n == Len(result) IN
    IF result[n] >= b
    THEN CarryUp(Append([result EXCEPT ![n] = @ % b], result[n] \div b), b)
    ELSE result

\* Returns the pair of the source in .result/.negative; .inplace is the
\* content the array object passed as argument holds after the call (the
\* scan and the highest-digit fix write into it, np.append does not).
propogate_carryovers(result, b, negative) ==
    IF Len(result) > 0
    THEN LET scanned == CarryScan(result, 1, b)
             fixed   == FixHighest(scanned, b)
             flipped == IF scanned[Len(scanned)] < 0 THEN ~negative ELSE negative
         IN [result |-> CarryUp(fixed, b), negative |-> flipped, inplace |-> fixed]
    ELSE [result |-> zeros(1), negative |-> FALSE, inplace |-> result]

-----------------------------------------------------------------------------
(* get_bigger_smaller *)

\* the digit loop "for i in range(-1,-len(x)-1,-1)"; TRUE when it returns y,x
RECURSIVE FirstIsSmaller(_, _, _)
FirstIsSmaller(a, b, i) ==
    IF i < 1 THEN FALSE
    ELSE IF a[i] < b[i] THEN TRUE
    ELSE IF a[i] > b[i] THEN FALSE
    ELSE FirstIsSmaller(a, b, i - 1)

\* Fault model: the comparison without its digit loop, by length only
get_bigger_smaller_by_length(a, b) ==
    IF Len(a) < Len(b) THEN <<b, a>> ELSE <<a, b>>

get_bigger_smaller(a, b) ==
    IF Len(a) < Len(b) THEN <<b, a>>
    ELSE IF Len(a) = Len(b) /\ FirstIsSmaller(a, b, Len(a)) THEN <<b, a>>
    ELSE <<a, b>>

-----------------------------------------------------------------------------
(* Array ownership.  copy(a) is numpy's a.copy(): a new array with the      *)
(* content of a that shares no memory with it, so later in-place writes to  *)
(* the new array are not seen through a.                                    *)

\* Fault model: the assignment without .copy(), which binds the same array
no_copy(a) == [data |-> a, shares |-> TRUE]

copy(a) == [data |-> a, shares |-> FALSE]

-----------------------------------------------------------------------------
(* _add_numbers.  self is the base of the object the method is called on.  *)
(* .result/.negative are the returned pair; .n1/.n2 are the contents of    *)
(* the two argument arrays after the call.  Each local of the source is a  *)
(* parameter of the step that follows its assignment.                      *)

\* "result[:overlap] = bigger[:overlap] +/- smaller" written into result
add_overlap(bigger, smaller, result, same) ==
    array([i \in 1..Len(bigger) |->
             IF i <= Len(smaller)
             THEN IF same THEN bigger[i] + smaller[i] ELSE bigger[i] - smaller[i]
             ELSE result[i]], Len(bigger))

\* "return np.trim_zeros(result,'b'), neg", p being what propogate_carryovers
\* returned; bigger holds p.inplace afterwards if result shares its memory
add_return(n1, n2, n1IsBigger, bigger, shares, p) ==
    [result   |-> trim_zeros(p.result),
     negative |-> p.negative,
     n1       |-> IF n1IsBigger THEN (IF shares THEN p.inplace ELSE bigger) ELSE n1,
     n2       |-> IF n1IsBigger THEN n2 ELSE (IF shares THEN p.inplace ELSE bigger)]

\* from "result = bigger.copy()" on; neg is the sign line 159 chose and
\* same is "neg1 == neg2"
add_sorted(self, n1, n2, n1IsBigger, neg, same, bigger, smaller, result) ==
    add_return(n1, n2, n1IsBigger, bigger, result.shares,
               propogate_carryovers(add_overlap(bigger, smaller, result.data, same),
                                    self, neg))

\* "bigger, smaller = self.get_bigger_smaller(n1,n2)" and the choice
\* "neg1 if n1 is bigger else neg2": get_bigger_smaller swaps only arrays
\* that differ, so identity is equality of content here
add_pair(self, n1, neg1, n2, neg2, bs) ==
    IF bs[1] = n1
    THEN add_sorted(self, n1, n2, TRUE, neg1, neg1 = neg2, bs[1], bs[2], copy(bs[1]))
    ELSE add_sorted(self, n1, n2, FALSE, neg2, neg1 = neg2, bs[1], bs[2], copy(bs[1]))

_add_numbers(self, n1, neg1, n2, neg2) ==
    add_pair(self, n1, neg1, n2, neg2, get_bigger_smaller(n1, n2))

_subtract_numbers(self, n1, neg1, n2, neg2) ==
    _add_numbers(self, n1, neg1, n2, ~neg2)

-----------------------------------------------------------------------------
(* _multiply_numbers (Karatsuba).  .result/.negative are the returned pair; *)
(* .n1/.n2 are the contents of the two argument arrays after the call (the  *)
(* halves a, b, c, d are views of them, and are passed on to _add_numbers   *)
(* and to the recursive calls).  Each local of the source is a parameter of *)
(* the step that follows its assignment.                                    *)

\* "second[:] * first[0]": a new array, every digit times the scalar
ScalarTimes(a, d) == array([i \in 1..Len(a) |-> a[i] * d], Len(a))

\* first[:m] and first[m:] with Python's slice clipping
LowSlice(a, m) == SubSeq(a, 1, IF m < Len(a) THEN m ELSE Len(a))
HighSlice(a, m) == SubSeq(a, m + 1, Len(a))

\* Fault model: one zero digit too many in front of z
PrependZerosOneMore(k, z) == zeros(k + 1) \o z

\* np.append(np.zeros(k), z)
PrependZeros(k, z) == zeros(k) \o z

\* first after the call, rebuilt from its two halves: b is a view of the
\* first Len(b) digits, a is the view first[m:]
Halves(first, m, bAfter, aAfter) ==
    bAfter \o SubSeq(first, Len(bAfter) + 1, IF m < Len(first) THEN m ELSE Len(first)) \o aAfter

RECURSIVE _multiply_numbers(_, _, _)
_multiply_numbers(self, n1, n2) ==
    LET swap      == Len(n1) < Len(n2)
        first     == IF swap THEN n2 ELSE n1
        second    == IF swap THEN n1 ELSE n2
        lenfirst  == Len(first)
        lensecond == Len(second)
    IN  IF lenfirst = 1
        THEN LET p == propogate_carryovers(ScalarTimes(second, first[1]), self, FALSE)
             IN  [result |-> p.result, negative |-> p.negative, n1 |-> n1, n2 |-> n2]
        ELSE IF lensecond = 1
        THEN LET p == propogate_carryovers(ScalarTimes(first, second[1]), self, FALSE)
             IN  [result |-> p.result, negative |-> p.negative, n1 |-> n1, n2 |-> n2]
        ELSE IF lenfirst = 0 \/ lensecond = 0
        THEN [result |-> zeros(1), negative |-> FALSE, n1 |-> n1, n2 |-> n2]
        ELSE
          LET m  == lenfirst \div 2
              b  == trim_zeros(LowSlice(first, m))
              a  == HighSlice(first, m)
              d  == trim_zeros(LowSlice(second, m))
              c  == HighSlice(second, m)
              z2 == _multiply_numbers(self, a, c)
              z0 == _multiply_numbers(self, b, d)
              ab == _add_numbers(self, z2.n1, FALSE, z0.n1, FALSE)
              cd == _add_numbers(self, z2.n2, FALSE, z0.n2, FALSE)
              z1 == _multiply_numbers(self, ab.result, cd.result)
              z2z0    == _add_numbers(self, z2.result, z1.negative, z0.result, z0.negative)
              zmid    == _add_numbers(self, z1.result, z1.negative, z2z0.result, ~z2z0.negative)
              zmiddle == PrependZeros(m, zmid.result)
              zends   == _add_numbers(self, PrependZeros(2 * m, z2.result), z2.negative,
                                      z0.result, z0.negative)
              final   == _add_numbers(self, zends.result, zends.negative, zmiddle, zmid.negative)
              firstAfter  == Halves(first, m, ab.n2, ab.n1)
              secondAfter == Halves(second, m, cd.n2, cd.n1)
          IN  [result   |-> final.result,
               negative |-> final.negative,
               n1       |-> IF swap THEN secondAfter ELSE firstAfter,
               n2       |-> IF swap THEN firstAfter ELSE secondAfter]

-----------------------------------------------------------------------------
(* BaseBigInteger objects and __init__ *)

Object(number, negative) == [number |-> number, negative |-> negative, err |-> "none"]

Raise(e) == [number |-> <<>>, negative |-> FALSE, err |-> e]

\* "while len(self._number) > 1 and self._number[-1] == 0: np.delete(..., -1)"
RECURSIVE CleanLeadingZeros(_)
CleanLeadingZeros(a) ==
    IF Len(a) > 1 /\ a[Len(a)] = 0 THEN CleanLeadingZeros(SubSeq(a, 1, Len(a) - 1)) ELSE a

\* lines 88-97, common to the three input types
init_normalise(number, b, negative) ==
    IF Len(number) > 0
    THEN LET p == propogate_carryovers(number, b, negative)
         IN  Object(CleanLeadingZeros(p.result), p.negative)
    ELSE Raise("Zero length")

\* x is an ndarray.  .obj is the new object, .arg the content of x afterwards.
init_array(a, b, negative) ==
    LET own    == copy(a)
        number == IF Len(a) < 1 THEN zeros(1) ELSE own.data
        p      == propogate_carryovers(number, b, negative)
    IN  [obj |-> init_normalise(number, b, negative),
         arg |-> IF own.shares /\ Len(a) >= 1 THEN p.inplace ELSE a]

\* the digit loop of the integer branch, for x >= 0: the last digit written
\* is x itself once x < base
RECURSIVE IntDigits(_, _)
IntDigits(n, b) ==
    IF n >= b THEN <<n % b>> \o IntDigits(n \div b, b) ELSE <<n % b>>

\* x is a Python or numpy integer
init_int(n, b, negative) ==
    IF n < 0 THEN init_normalise(IntDigits(-n, b), b, TRUE)
             ELSE init_normalise(IntDigits(n, b), b, negative)

-----------------------------------------------------------------------------
(* Strings are sequences of one-character strings. *)

Alphabet == <<"0","1","2","3","4","5","6","7","8","9",
              "A","B","C","D","E","F","G","H","I","J","K","L","M",
              "N","O","P","Q","R","S","T","U","V","W","X","Y","Z">>

Lower == <<"a","b","c","d","e","f","g","h","i","j","k","l","m",
           "n","o","p","q","r","s","t","u","v","w","x","y","z">>

IndexIn(seq, c) == CHOOSE i \in 1..Len(seq) : seq[i] = c

IsIn(seq, c) == \E i \in 1..Len(seq) : seq[i] = c

\* str.upper() on one character
Upper(c) == IF IsIn(Lower, c) THEN Alphabet[10 + IndexIn(Lower, c)] ELSE c

\* ord() of the characters the model uses
Ord(c) ==
    IF IsIn(Alphabet, c)
    THEN (IF IndexIn(Alphabet, c) <= 10 THEN 47 + IndexIn(Alphabet, c)
                                        ELSE 54 + IndexIn(Alphabet, c))
    ELSE IF IsIn(Lower, c) THEN 96 + IndexIn(Lower, c)
    ELSE IF c = "-" THEN 45
    ELSE 124   \* "|"

IsDecimal(c) == IsIn(SubSeq(Alphabet, 1, 10), c)

\* the lambda of lines 84-85
CharDigit(c) == IF 48 <= Ord(c) /\ Ord(c) <= 57 THEN Ord(c) - 48 ELSE Ord(c) - 65 + 10

\* x.replace('-','')
RECURSIVE RemoveMinus(_)
RemoveMinus(s) ==
    IF Len(s) = 0 THEN s
    ELSE IF s[1] = "-" THEN RemoveMinus(Tail(s))
    ELSE <<s[1]>> \o RemoveMinus(Tail(s))

\* str(n) for an integer n
RECURSIVE DecStr(_)
DecStr(n) ==
    IF n < 0 THEN <<"-">> \o DecStr(-n)
    ELSE IF n < 10 THEN <<Alphabet[n + 1]>>
    ELSE DecStr(n \div 10) \o <<Alphabet[(n % 10) + 1]>>

\* str.zfill(width) of a string without sign
RECURSIVE zfill(_, _)
zfill(s, width) == IF Len(s) >= width THEN s ELSE zfill(<<"0">> \o s, width)

\* x is a string (lines 71-86)
init_str(s, b, negative) ==
    IF Len(s) = 0 THEN Raise("IndexError")      \* x[0] of an empty string
    ELSE
      LET neg  == negative \/ s[1] = "-"
          body == IF s[1] = "-" THEN RemoveMinus(s) ELSE s
      IN  IF Len(body) < 1 THEN init_normalise(zeros(1), b, neg)
          ELSE IF b <= 10
          THEN IF \A i \in 1..Len(body) : IsDecimal(body[i])
               THEN init_normalise(array([i \in 1..Len(body) |->
                                             IndexIn(Alphabet, Reversed(body)[i]) - 1],
                                         Len(body)), b, neg)
               ELSE Raise("ValueError")          \* int() of a non-numeric character
          ELSE init_normalise(array([i \in 1..Len(body) |->
                                        CharDigit(Upper(Reversed(body)[i]))],
                                    Len(body)), b, neg)

-----------------------------------------------------------------------------
(* __str__ : .text is the rendered string, .err the exception if it raised *)

PowersOfTen == {100, 1000, 10000, 100000, 1000000, 10000000, 100000000, 1000000000}

\* "while (b > 1): num += 1; b //= 10"
RECURSIVE ZfillWidth(_)
ZfillWidth(b) == IF b > 1 THEN 1 + ZfillWidth(b \div 10) ELSE 0

RECURSIVE Join(_)
Join(parts) == IF Len(parts) = 0 THEN <<>> ELSE parts[1] \o Join(Tail(parts))

SignText(v) == IF v.negative THEN <<"-">> ELSE <<>>

__str__(v, b) ==
    LET msf == Reversed(v.number) IN
    IF b <= 10
    THEN [text |-> SignText(v) \o Join(array([i \in 1..Len(msf) |-> DecStr(msf[i])], Len(msf))),
          err |-> "none"]
    ELSE IF b <= 36
    THEN [text |-> SignText(v) \o
                   Join(array([i \in 1..Len(msf) |->
                                 IF msf[i] < 10 THEN DecStr(msf[i]) ELSE <<Alphabet[msf[i] + 1]>>],
                              Len(msf))),
          err |-> "none"]
    ELSE IF b \in PowersOfTen
    THEN [text |-> SignText(v) \o DecStr(msf[1]) \o
                   Join(array([i \in 1..(Len(msf) - 1) |->
                                 zfill(DecStr(msf[i + 1]), ZfillWidth(b))], Len(msf) - 1)),
          err |-> "none"]
    ELSE [text |-> <<>>, err |-> "TypeError"]   \* '|'.join() of a list of ints

-----------------------------------------------------------------------------
(* The operators.  Each returns the new object in .obj and the contents of *)
(* the operands' digit arrays after the call in .self and .other.          *)

\* "return BaseBigInteger(result, self._base, neg, self._store)"
binary_return(b, s) ==
    [obj   |-> init_array(s.result, b, s.negative).obj,
     self  |-> s.n1,
     other |-> s.n2]

__add__(b, self, other) ==
    binary_return(b, _add_numbers(b, self.number, self.negative, other.number, other.negative))

__sub__(b, self, other) ==
    binary_return(b, _add_numbers(b, self.number, self.negative, other.number, ~other.negative))

\* "return BaseBigInteger(result, self._base, neg | (self._negative != other._negative))"
mul_return(b, self, other, c1, c2, p) ==
    [obj   |-> init_array(p.result, b,
                          p.negative \/ (self.negative # other.negative)).obj,
     self  |-> IF c1.shares THEN p.n1 ELSE self.number,
     other |-> IF c2.shares THEN p.n2 ELSE other.number]

\* c1, c2: self._number.copy(), other._number.copy()
mul_copies(b, self, other, c1, c2) ==
    mul_return(b, self, other, c1, c2, _multiply_numbers(b, c1.data, c2.data))

__mul__(b, self, other) ==
    mul_copies(b, self, other, copy(self.number), copy(other.number))

shift(b, self, shift_num) ==
    LET made   == init_array(self.number, b, self.negative)
        result == made.obj
    IN  [obj  |-> IF shift_num = 0 THEN result
                  ELSE IF shift_num > 0
                  THEN [result EXCEPT !.number = PrependZeros(shift_num, result.number)]
                  ELSE IF Len(result.number) + shift_num > 0
                  THEN [result EXCEPT !.number =
                           SubSeq(result.number, 1 - shift_num, Len(result.number))]
                  ELSE init_int(0, b, FALSE),
         self |-> made.arg]

-----------------------------------------------------------------------------
(* The integer a digit array and a sign stand for *)

RECURSIVE Magnitude(_, _)
Magnitude(number, b) ==
    IF Len(number) = 0 THEN 0 ELSE number[1] + b * Magnitude(Tail(number), b)

Denotes(v, b) == IF v.negative THEN -Magnitude(v.number, b) ELSE Magnitude(v.number, b)

Abs(n) == IF n < 0 THEN -n ELSE n

\* the native value of shifting n by k digits: the lowest digits are dropped
\* from the magnitude when k < 0
NativeShift(n, b, k) ==
    IF k >= 0 THEN n * Pow(b, k)
    ELSE IF n < 0 THEN -((-n) \div Pow(b, -k)) ELSE n \div Pow(b, -k)

-----------------------------------------------------------------------------
(* The session: a driver that builds two operands and applies the operators *)

\* strings the driver passes, with the native integer they spell (int(s, base))
StrInputs == { [s |-> <<"9">>, n |-> 9],  [s |-> <<"-", "9">>, n |-> -9],
               [s |-> <<"1">>, n |-> 1],  [s |-> <<"-", "1">>, n |-> -1],
               [s |-> <<"0">>, n |-> 0] }

\* every character of s is a digit of base b
ValidFor(s, b) ==
    \A i \in 1..Len(s) :
        IF s[i] = "-" THEN i = 1 ELSE IsIn(Alphabet, s[i]) /\ IndexIn(Alphabet, s[i]) - 1 < b

Zero(b) == init_int(0, b, FALSE)

Init ==
    /\ base \in Bases
    /\ x = Zero(base) /\ y = Zero(base) /\ r = Zero(base)
    /\ op = "init" /\ args = <<"x", "y">>
    /\ nx = 0 /\ ny = 0 /\ nr = 0
    /\ sx = "new" /\ sy = "new"
    /\ text = <<>>

\* x = BaseBigInteger(n, base)
NewIntX(n) ==
    /\ x' = init_int(n, base, FALSE) /\ nx' = n /\ sx' = "new"
    /\ r' = x' /\ nr' = n /\ op' = "new" /\ args' = <<"x", "x">>
    /\ text' = __str__(x', base).text
    /\ UNCHANGED <<base, y, ny, sy>>

\* y = BaseBigInteger(n, base)
NewIntY(n) ==
    /\ y' = init_int(n, base, FALSE) /\ ny' = n /\ sy' = "new"
    /\ r' = y' /\ nr' = n /\ op' = "new" /\ args' = <<"y", "y">>
    /\ text' = __str__(y', base).text
    /\ UNCHANGED <<base, x, nx, sx>>

\* x = BaseBigInteger(s, base=base)
NewStrX(inp) ==
    /\ ValidFor(inp.s, base)
    /\ x' = init_str(inp.s, base, FALSE) /\ nx' = inp.n /\ sx' = "new"
    /\ r' = x' /\ nr' = inp.n /\ op' = "new" /\ args' = <<"x", "x">>
    /\ text' = __str__(x', base).text
    /\ UNCHANGED <<base, y, ny, sy>>

\* y = BaseBigInteger(s, base=base)
NewStrY(inp) ==
    /\ ValidFor(inp.s, base)
    /\ y' = init_str(inp.s, base, FALSE) /\ ny' = inp.n /\ sy' = "new"
    /\ r' = y' /\ nr' = inp.n /\ op' = "new" /\ args' = <<"y", "y">>
    /\ text' = __str__(y', base).text
    /\ UNCHANGED <<base, x, nx, sx>>

\* the second operand of a binary call and its native integer
Other(pair) == IF pair[2] = "x" THEN x ELSE y
NativeOther(pair) == IF pair[2] = "x" THEN nx ELSE ny

OperandPairs == {<<"x", "y">>, <<"x", "x">>}

\* what a binary call on x and the second operand leaves in x and y: when
\* both operands are one object, the arrays .self and .other are one array
Binary(pair, call, native, name) ==
    /\ r' = call.obj /\ nr' = native /\ op' = name /\ args' = pair
    /\ x' = [x EXCEPT !.number = call.self]
    /\ y' = IF pair[2] = "y" THEN [y EXCEPT !.number = call.other] ELSE y
    /\ text' = __str__(call.obj, base).text
    /\ UNCHANGED <<base, nx, ny, sx, sy>>

\* r = x + other
Add(pair) == Binary(pair, __add__(base, x, Other(pair)), nx + NativeOther(pair), "add")

\* r = x - other
Sub(pair) == Binary(pair, __sub__(base, x, Other(pair)), nx - NativeOther(pair), "sub")

\* r = x * other
Mul(pair) == Binary(pair, __mul__(base, x, Other(pair)), nx * NativeOther(pair), "mul")

\* r = x.shift(k)
Shift(k) ==
    LET call == shift(base, x, k) IN
    /\ r' = call.obj /\ nr' = NativeShift(nx, base, k) /\ op' = "shift" /\ args' = <<"x", k>>
    /\ x' = [x EXCEPT !.number = call.self]
    /\ text' = __str__(call.obj, base).text
    /\ UNCHANGED <<base, y, nx, ny, sx, sy>>

\* x = r : the driver keeps a result as an operand of later calls.  Only
\* results of calls on constructed operands are kept, which bounds the length
\* of the chains the session builds.
KeepX ==
    /\ op \in {"add", "sub", "mul", "shift"} /\ sx = "new" /\ sy = "new"
    /\ Abs(nr) <= MaxLoad /\ Len(r.number) <= MaxDigits
    /\ x' = r /\ nx' = nr /\ sx' = "kept" /\ op' = "keep" /\ args' = <<"x", "x">>
    /\ UNCHANGED <<base, y, r, ny, nr, sy, text>>

\* y = r
KeepY ==
    /\ op \in {"add", "sub", "mul", "shift"} /\ sx = "new" /\ sy = "new"
    /\ Abs(nr) <= MaxLoad /\ Len(r.number) <= MaxDigits
    /\ y' = r /\ ny' = nr /\ sy' = "kept" /\ op' = "keep" /\ args' = <<"y", "y">>
    /\ UNCHANGED <<base, x, r, nx, nr, sx, text>>

Next ==
    \/ \E n \in -MaxInt..MaxInt : NewIntX(n)
    \/ \E n \in -MaxInt..MaxInt : NewIntY(n)
    \/ \E inp \in StrInputs : NewStrX(inp)
    \/ \E inp \in StrInputs : NewStrY(inp)
    \/ \E pair \in OperandPairs : Add(pair)
    \/ \E pair \in OperandPairs : Sub(pair)
    \/ \E pair \in OperandPairs : Mul(pair)
    \/ \E k \in -MaxShift..MaxShift : Shift(k)
    \/ KeepX
    \/ KeepY

Spec == Init /\ [][Next]_vars

-----------------------------------------------------------------------------
(* Sums and differences of two constructed operands up to MaxAddInt *)

InitAdd ==
    /\ base \in Bases
    /\ nx \in -MaxAddInt..MaxAddInt /\ ny \in -MaxAddInt..MaxAddInt
    /\ x = init_int(nx, base, FALSE) /\ y = init_int(ny, base, FALSE)
    /\ r = Zero(base)
    /\ op = "init" /\ args = <<"x", "y">>
    /\ nr = 0
    /\ sx = "new" /\ sy = "new"
    /\ text = <<>>

NextAdd ==
    \/ Add(<<"x", "y">>)
    \/ Sub(<<"x", "y">>)

SpecAdd == InitAdd /\ [][NextAdd]_vars

-----------------------------------------------------------------------------
(* Multiplication of digit arrays of any content up to MaxMulLen digits *)

\* all sequences of length n over the set S
RECURSIVE SeqsOfLen(_, _)
SeqsOfLen(S, n) ==
    IF n = 0 THEN {<<>>}
    ELSE {<<d>> \o t : d \in S, t \in SeqsOfLen(S, n - 1)}

SeqsUpTo(S, n) == UNION {SeqsOfLen(S, k) : k \in 1..n}

\* the digits the operands are drawn from: the smallest and the largest
MulDigits(b) == {0, b - 1}

\* objects built from a digit array of at most len digits and a sign flag;
\* the flag is set only on arrays of at most MaxSignedLen digits
MulOperands(b, len) ==
    {init_array(a, b, neg).obj :
        a \in SeqsUpTo(MulDigits(b), len),
        neg \in BOOLEAN} \ {v \in {init_array(a, b, TRUE).obj :
                                   a \in SeqsUpTo(MulDigits(b), len)} :
                              Len(v.number) > MaxSignedLen}

InitMul ==
    /\ base \in MulBases
    /\ x \in MulOperands(base, MaxMulLen) /\ y \in MulOperands(base, MaxMulLenY)
    /\ r = Zero(base)
    /\ op = "init" /\ args = <<"x", "y">>
    /\ nx = Denotes(x, base) /\ ny = Denotes(y, base) /\ nr = 0
    /\ sx = "new" /\ sy = "new"
    /\ text = <<>>

NextMul == Mul(<<"x", "y">>)

SpecMul == InitMul /\ [][NextMul]_vars

-----------------------------------------------------------------------------
(* The normaliser on arbitrary digit arrays *)

NormInputs == SeqsUpTo(-MaxNormDigit..MaxNormDigit, MaxNormLen)

\* args holds the array and the tentative sign passed to propogate_carryovers
InitNorm ==
    /\ base \in NormBases
    /\ x = Zero(base) /\ y = Zero(base) /\ r = Zero(base)
    /\ op = "init"
    /\ \E a \in NormInputs, neg \in BOOLEAN : args = <<a, neg>>
    /\ nx = 0 /\ ny = 0 /\ nr = 0
    /\ sx = "new" /\ sy = "new"
    /\ text = <<>>

\* r holds exactly the pair propogate_carryovers returns
Normalise ==
    LET p == propogate_carryovers(args[1], base, args[2]) IN
    /\ op = "init"
    /\ r' = Object(p.result, p.negative) /\ op' = "normalise"
    /\ UNCHANGED <<base, x, y, args, nx, ny, nr, sx, sy, text>>

NextNorm == Normalise

SpecNorm == InitNorm /\ [][NextNorm]_vars

-----------------------------------------------------------------------------
(* The codec: constructor inputs of the three types, and rendering *)

CodecStrings == { <<>>, <<"-">>, <<"0">>, <<"-", "0">>, <<"1", "0">>, <<"-", "1">>,
                  <<"f">>, <<"1", "F">>, <<"0", "0", "1">> }

CodecArrays == { <<>>, <<0>>, <<0, 0>>, <<1>>, <<1, 0>>, <<0, 1>>, <<-1>>, <<1, 1, 0, 0>> }

InitCodec ==
    /\ base \in CodecBases
    /\ x = Zero(base) /\ y = Zero(base) /\ r = Zero(base)
    /\ op = "init" /\ args = <<"x", "x">>
    /\ nx = 0 /\ ny = 0 /\ nr = 0
    /\ sx = "new" /\ sy = "new"
    /\ text = <<>>

\* x = BaseBigInteger(n, base)
CodecInt(n) ==
    /\ x' = init_int(n, base, FALSE) /\ nx' = n
    /\ r' = x' /\ nr' = n /\ op' = "new" /\ args' = <<"int", n>>
    /\ text' = <<>>
    /\ UNCHANGED <<base, y, ny, sx, sy>>

\* r = BaseBigInteger(s, base=base); text keeps the string passed
CodecStr(s) ==
    /\ r' = init_str(s, base, FALSE) /\ op' = "str" /\ args' = <<"str", s>>
    /\ text' = s /\ nr' = 0
    /\ UNCHANGED <<base, x, y, nx, ny, sx, sy>>

\* r = BaseBigInteger(np.array(a), base, negative)
CodecArray(a, negative) ==
    /\ r' = init_array(a, base, negative).obj /\ op' = "array" /\ args' = <<"array", a>>
    /\ text' = <<>> /\ nr' = 0
    /\ UNCHANGED <<base, x, y, nx, ny, sx, sy>>

\* r = BaseBigInteger(str(x), base=base)
RoundTrip ==
    LET shown == __str__(x, base) IN
    /\ text' = shown.text
    /\ r' = IF shown.err = "none" THEN init_str(shown.text, base, FALSE) ELSE Raise(shown.err)
    /\ op' = "roundtrip" /\ args' = <<"x", "x">> /\ nr' = nx
    /\ UNCHANGED <<base, x, y, nx, ny, sx, sy>>

NextCodec ==
    \/ \E n \in -MaxCodecInt..MaxCodecInt : CodecInt(n)
    \/ \E s \in CodecStrings : CodecStr(s)
    \/ \E a \in CodecArrays, negative \in BOOLEAN : CodecArray(a, negative)
    \/ RoundTrip

SpecCodec == InitCodec /\ [][NextCodec]_vars

-----------------------------------------------------------------------------
(* The chains of recursive calls of _multiply_numbers.  x.number and       *)
(* y.number are the arguments of the call a chain has reached; args holds  *)
(* the call site the chain took last and the arguments of that caller.     *)
(* sx and sy remember what the chain met on its way: a sum a+b or c+d one  *)
(* digit longer than its terms, and an empty half.                         *)

MaxRecLen == 4
MaxRecLenY == 3

RecBases == {2, 3}

\* every digit array over [0, b) of at most len digits, the empty one included
RecOperands(b, len) == {Object(a, FALSE) : a \in SeqsUpTo(0..(b - 1), len) \cup {<<>>}}

\* "if lenfirst < lensecond: first, second = second,first"
sorted_operands(n1, n2) == IF Len(n1) < Len(n2) THEN <<n2, n1>> ELSE <<n1, n2>>

\* Fault model: the base cases without the return for an empty operand
is_base_case_without_empty(first, second) ==
    Len(first) = 1 \/ Len(second) = 1

\* the three returns before the split: "if lenfirst == 1", "if lensecond == 1",
\* "if not lenfirst or not lensecond"
is_base_case(first, second) ==
    Len(first) = 1 \/ Len(second) = 1 \/ Len(first) = 0 \/ Len(second) = 0

\* "m = lenfirst >> 1"
split_point(first) == Len(first) \div 2

\* the arguments a, c of "z2, z2neg = self._multiply_numbers(a, c)"
z2_operands(first, second, m) == <<HighSlice(first, m), HighSlice(second, m)>>

\* the arguments b, d of "z0, z0neg = self._multiply_numbers(b, d)"
z0_operands(first, second, m) ==
    <<trim_zeros(LowSlice(first, m)), trim_zeros(LowSlice(second, m))>>

\* the arguments of the third call: _add_numbers(a, False, b, False)[0] and
\* _add_numbers(c, False, d, False)[0], on the arrays as the calls z2 and z0
\* left them
z1_sums(self, z2, z0) ==
    <<_add_numbers(self, z2.n1, FALSE, z0.n1, FALSE).result,
      _add_numbers(self, z2.n2, FALSE, z0.n2, FALSE).result>>

z1_of(self, ac, bd) ==
    z1_sums(self, _multiply_numbers(self, ac[1], ac[2]), _multiply_numbers(self, bd[1], bd[2]))

z1_operands(self, first, second, m) ==
    z1_of(self, z2_operands(first, second, m), z0_operands(first, second, m))

InitRec ==
    /\ base \in RecBases
    /\ x \in RecOperands(base, MaxRecLen) /\ y \in RecOperands(base, MaxRecLenY)
    /\ r = Zero(base)
    /\ op = "call" /\ args = <<"top", <<>>, <<>>>>
    /\ nx = 0 /\ ny = 0 /\ nr = 0
    /\ sx = "none" /\ sy = "none"
    /\ text = <<>>

\* first and second of the call the chain has reached, after the swap
CallFirst == sorted_operands(x.number, y.number)[1]

CallSecond == sorted_operands(x.number, y.number)[2]

\* the call returns from one of its base cases; the value it returns is
\* that of _multiply_numbers and plays no part in where the chain goes
ReturnBase ==
    /\ op = "call" /\ is_base_case(CallFirst, CallSecond)
    /\ op' = "return"
    /\ UNCHANGED <<base, x, y, r, args, nx, ny, nr, sx, sy, text>>

\* the call is past its base cases and the chain enters the call at site
\* with the arguments ops; longer is TRUE when site is z1 and a sum has one
\* digit more than both of its terms
Descend(site, ops, longer) ==
    /\ op = "call" /\ ~is_base_case(CallFirst, CallSecond)
    /\ x' = Object(ops[1], FALSE) /\ y' = Object(ops[2], FALSE)
    /\ args' = <<site, x.number, y.number>>
    /\ sx' = IF longer THEN "carry" ELSE sx
    /\ sy' = IF site # "z1" /\ (Len(ops[1]) = 0 \/ Len(ops[2]) = 0) THEN "empty" ELSE sy
    /\ UNCHANGED <<base, r, op, nx, ny, nr, text>>

LongerThan(sum, p, q) == Len(sum) > Len(p) /\ Len(sum) > Len(q)

GainsDigit(sums, ac, bd) ==
    LongerThan(sums[1], ac[1], bd[1]) \/ LongerThan(sums[2], ac[2], bd[2])

DescendZ2 ==
    Descend("z2", z2_operands(CallFirst, CallSecond, split_point(CallFirst)), FALSE)

DescendZ0 ==
    Descend("z0", z0_operands(CallFirst, CallSecond, split_point(CallFirst)), FALSE)

DescendZ1 ==
    Descend("z1", z1_operands(base, CallFirst, CallSecond, split_point(CallFirst)),
            GainsDigit(z1_operands(base, CallFirst, CallSecond, split_point(CallFirst)),
                       z2_operands(CallFirst, CallSecond, split_point(CallFirst)),
                       z0_operands(CallFirst, CallSecond, split_point(CallFirst))))

NextRec == ReturnBase \/ DescendZ2 \/ DescendZ0 \/ DescendZ1

\* a call that has started runs on: every step of it that can be taken is taken
SpecRec == InitRec /\ [][NextRec]_vars /\ WF_vars(NextRec)

-----------------------------------------------------------------------------
(* Properties *)

Operand2 == IF args[2] = "x" THEN x ELSE y

BothConstructed == sx = "new" /\ sy = "new"

\* C1: for operands built by the constructor from integers nx and ny, x + y
\* stands for the integer nx + ny and x - y for nx - ny, whatever the signs.
C1_AddSubExact ==
    (op \in {"add", "sub"} /\ BothConstructed)
        => (r.err = "none" /\ Denotes(r, base) = nr)

\* a longer positive operand subtracted from a shorter one: the operands are
\* swapped, the borrow runs up to the top digit and clears it, and the result
\* takes the negated sign of the second operand
C1_Witness ==
    /\ op = "sub" /\ BothConstructed /\ args = <<"x", "y">>
    /\ nx > 0 /\ ny > nx /\ Len(y.number) > Len(x.number) /\ Len(x.number) > 1
    /\ Len(r.number) < Len(y.number)
    /\ r.negative /\ Denotes(r, base) = nx - ny

\* the O(n^2) product of two digit arrays: column k collects a[i] * b[j] with
\* i + j = k + 1, and the carry moves up one column at a time
RECURSIVE ColumnSum(_, _, _, _)
ColumnSum(a, b, k, i) ==
    IF i > Len(a) THEN 0
    ELSE (IF k + 1 - i >= 1 /\ k + 1 - i <= Len(b) THEN a[i] * b[k + 1 - i] ELSE 0)
         + ColumnSum(a, b, k, i + 1)

RECURSIVE SchoolbookFrom(_, _, _, _, _)
SchoolbookFrom(a, b, radix, k, carry) ==
    IF k > Len(a) + Len(b) THEN <<>>
    ELSE LET total == ColumnSum(a, b, k, 1) + carry
         IN  <<total % radix>> \o SchoolbookFrom(a, b, radix, k + 1, total \div radix)

RECURSIVE StripTop(_)
StripTop(digits) ==
    IF Len(digits) > 1 /\ digits[Len(digits)] = 0
    THEN StripTop(SubSeq(digits, 1, Len(digits) - 1)) ELSE digits

Schoolbook(a, b, radix) == StripTop(SchoolbookFrom(a, b, radix, 1, 0))

\* C2: the Karatsuba product has the digits of the schoolbook product of the
\* two digit arrays, and its sign is the exclusive or of the operand signs.
C2_KaratsubaIsSchoolbook ==
    (op = "mul")
        => /\ r.err = "none"
           /\ r.number = Schoolbook(x.number, Operand2.number, base)
           /\ r.negative = (x.negative # Operand2.negative)

\* a six-digit operand whose low half is all zeros times a two-digit negative
\* operand, shorter than the split point m = 3
C2_Witness ==
    /\ op = "mul" /\ args = <<"x", "y">>
    /\ Len(x.number) = 6 /\ x.number[1] = 0 /\ x.number[2] = 0 /\ x.number[3] = 0
    /\ Len(y.number) = 2 /\ y.negative /\ ~x.negative
    /\ r.negative /\ Len(r.number) >= 7

Canonical(v) ==
    v.err = "none" =>
        /\ Len(v.number) >= 1
        /\ \A i \in 1..Len(v.number) : v.number[i] >= 0 /\ v.number[i] < base
        /\ (Len(v.number) = 1 \/ v.number[Len(v.number)] # 0)

\* C3: every object an operation returns (constructor, +, -, *, shift with any
\* k) has at least one digit, every digit in [0, base), and no most significant
\* zero digit unless it is exactly [0].
C3_AllValuesCanonical == Canonical(x) /\ Canonical(y) /\ Canonical(r)

\* C4: an object with digits [0] that the constructor, +, - or * returns has
\* sign false and renders without a leading '-'.
C4_ZeroIsUnsigned ==
    (op \in {"new", "add", "sub", "mul"} /\ r.number = <<0>>)
        => (~r.negative /\ text = <<"0">>)

\* C5: rendering an object built from an integer and decoding the string in
\* the same base gives back the same digits and sign, in every base.
C5_StringRoundTrip ==
    (op = "roundtrip") => (r = x)

\* C6: for k >= 0, x.shift(k) has the digits and sign of x * BaseBigInteger(base^k).
C6_ShiftIsMultiply ==
    (op = "shift" /\ args[2] >= 0)
        => (r = __mul__(base, x, init_int(Pow(base, args[2]), base, FALSE)).obj)

\* C7: +, -, * and shift leave the digits, sign and base of their operands as
\* they were, also when both operands are one object.
C7_OperandsUnchanged ==
    [][(op' \in {"add", "sub", "mul", "shift"}) => (x' = x /\ y' = y /\ base' = base)]_vars

\* x + x on one object, where the carry scan rewrote every digit of the scratch
\* array and a new top digit was appended
C7_Witness ==
    /\ op = "add" /\ args = <<"x", "x">>
    /\ Len(x.number) > 1 /\ Len(r.number) > Len(x.number)
    /\ \A i \in 1..Len(x.number) : r.number[i] # x.number[i]

\* C8: the constructor turns an empty digit array and an empty string into the
\* object with digits [0] and sign false, and raises nothing.
C8_EmptyInputIsZero ==
    (op \in {"str", "array"} /\ args[2] = <<>>) => (r = Zero(base))

\* the signed integer of an array whose entries may be negative or >= base
SignedValue(number, negative, b) ==
    IF negative THEN -Magnitude(number, b) ELSE Magnitude(number, b)

\* C9: propogate_carryovers returns digits in [0, base) that stand, with the
\* returned sign, for the same signed integer as the array and sign passed.
C9_NormaliserKeepsValue ==
    (op = "normalise")
        => /\ \A i \in 1..Len(r.number) : r.number[i] >= 0 /\ r.number[i] < base
           /\ SignedValue(r.number, r.negative, base) = SignedValue(args[1], args[2], base)

\* C10: every result of a chain of constructor, shift (k >= 0), +, - and *
\* steps stands for the integer the same steps give on native integers.
C10_ChainsExact ==
    (op \in {"new", "add", "sub", "mul"} \/ (op = "shift" /\ args[2] >= 0))
        => (r.err = "none" /\ Denotes(r, base) = nr)

\* C11: every chain of recursive calls of _multiply_numbers, from any pair of
\* digit arrays over [0, base), reaches a call that returns from a base case.
C11_RecursionTerminates == <>(op = "return")

\* a chain that met a sum with a carry digit and an empty half, and returned
C11_Witness ==
    /\ op = "return" /\ sx = "carry" /\ sy = "empty"
    /\ Len(args[2]) >= 2 /\ Len(args[3]) >= 2

====
